---- MODULE Spec2Model ----
(***************************************************************************)
(* A model of backup.py: the BackupManager session (path filter, tree      *)
(* enumeration, config cache, archive writer, retention pass), the main()  *)
(* request loop and the KeyboardInterrupt handler of the script.           *)
(*                                                                         *)
(* Strings are sequences of one-character strings, so that slicing,        *)
(* splitting, substring tests and ordering are computed as Python does.    *)
(***************************************************************************)
EXTENDS Integers, Sequences, FiniteSets, TLC

VARIABLES
    today,                    \* datetime.now() of the session, <<year, month, day>>
    args,                     \* the parsed command line: force, dateless, preview
    queue,                    \* the archive requests main() has still to serve
    pc,                       \* the position of the script
    mgr,                      \* the BackupManager of the request being served
    files,                    \* immediate entries of the destination directory
    cache,                    \* the records {destination}/cache/{name}.json
    NAMEDTEMPORARYFILE_NAME,  \* the module global read by the interrupt handler
    temp,                     \* temp.name of the compress() call in flight
    tree,                     \* the target tree on disk
    runs,                     \* outputs of the latest namelist enumerations in a row
    valid,                    \* the latest call, when it was isValid: its result
    hist                      \* history: what the call in flight found and did

vars == <<today, args, queue, pc, mgr, files, cache, NAMEDTEMPORARYFILE_NAME,
          temp, tree, runs, valid, hist>>

---------------------------------------------------------------------------
(* Bounds of the model *)

\* largest number of entries below the root of a target tree
MaxNodes == 4
\* largest number of patterns in the allow set and in the deny set
MaxPatterns == 1
\* largest number of entries in the destination before the script starts
MaxFiles == 3
\* largest number of archive requests on one command line
MaxRequests == 2

---------------------------------------------------------------------------
(* Python strings *)

None == <<>>

DigitChars == <<"0", "1", "2", "3", "4", "5", "6", "7", "8", "9">>

\* ord(c) for the characters the model uses
ord ==
    [c \in {"-", ".", "/", "_"} \cup {DigitChars[i] : i \in 1..10}
              \cup {"a", "b", "c", "d", "e", "h", "i", "k", "o", "p", "s", "t",
                    "v", "x", "y", "z"} |->
        CASE c = "-" -> 45 [] c = "." -> 46 [] c = "/" -> 47
          [] c = "0" -> 48 [] c = "1" -> 49 [] c = "2" -> 50 [] c = "3" -> 51
          [] c = "4" -> 52 [] c = "5" -> 53 [] c = "6" -> 54 [] c = "7" -> 55
          [] c = "8" -> 56 [] c = "9" -> 57 [] c = "_" -> 95
          [] c = "a" -> 97 [] c = "b" -> 98 [] c = "c" -> 99 [] c = "d" -> 100
          [] c = "e" -> 101 [] c = "h" -> 104 [] c = "i" -> 105
          [] c = "k" -> 107 [] c = "o" -> 111 [] c = "p" -> 112
          [] c = "s" -> 115 [] c = "t" -> 116 [] c = "v" -> 118
          [] c = "x" -> 120 [] c = "y" -> 121 [] c = "z" -> 122]

\* a < b for sequences of integers: lexicographic, a proper prefix is smaller
\* (the order of str by code points, and of datetime by year, month, day)
RECURSIVE KeyLess(_, _)
KeyLess(a, b) ==
    IF b = <<>> THEN FALSE
    ELSE IF a = <<>> THEN TRUE
    ELSE IF Head(a) = Head(b) THEN KeyLess(Tail(a), Tail(b))
    ELSE Head(a) < Head(b)

\* the code points of the string s
codes(s) == [i \in 1..Len(s) |-> ord[s[i]]]

\* s < t for str
StrLess(s, t) == KeyLess(codes(s), codes(t))

\* s[a:b] with 0 <= a and b counted from the start (b >= 0) or the end (b < 0)
Slice(s, a, b) ==
    LET n == Len(s)
        hi == IF b < 0 THEN (IF n + b < 0 THEN 0 ELSE n + b)
                       ELSE (IF b > n THEN n ELSE b)
    IN  IF a >= hi THEN <<>> ELSE SubSeq(s, a + 1, hi)

\* pattern in path
In(pattern, path) ==
    \E i \in 0..(Len(path) - Len(pattern)) :
        SubSeq(path, i + 1, i + Len(pattern)) = pattern

\* s.endswith(t)
EndsWith(s, t) ==
    /\ Len(t) <= Len(s)
    /\ SubSeq(s, Len(s) - Len(t) + 1, Len(s)) = t

\* s.split(sep) for a one-character sep
RECURSIVE Split(_, _)
Split(s, sep) ==
    IF \A i \in 1..Len(s) : s[i] # sep THEN <<s>>
    ELSE LET k == CHOOSE i \in 1..Len(s) :
                      /\ s[i] = sep
                      /\ \A j \in 1..(i - 1) : s[j] # sep
         IN  <<SubSeq(s, 1, k - 1)>> \o Split(SubSeq(s, k + 1, Len(s)), sep)

\* sep.join(parts)
RECURSIVE Join(_, _)
Join(parts, sep) ==
    IF parts = <<>> THEN <<>>
    ELSE IF Len(parts) = 1 THEN parts[1]
    ELSE parts[1] \o sep \o Join(Tail(parts), sep)

Range(f) == {f[x] : x \in DOMAIN f}

\* sorted(xs, key=..., reverse=...), key giving each element its sort key:
\* a stable sort, which leaves elements of equal keys in the order of xs
sorted(xs, key, reverse) ==
    LET less(x, y) == IF reverse THEN KeyLess(key[y], key[x])
                                 ELSE KeyLess(key[x], key[y])
        RECURSIVE ins(_, _)
        ins(x, ys) ==
            IF ys = <<>> THEN <<x>>
            ELSE IF less(x, Head(ys)) THEN <<x>> \o ys
            ELSE <<Head(ys)>> \o ins(x, Tail(ys))
        RECURSIVE srt(_)
        srt(ys) ==
            IF ys = <<>> THEN <<>>
            ELSE ins(ys[Len(ys)], srt(SubSeq(ys, 1, Len(ys) - 1)))
    IN  srt(xs)

\* the sequences that list every element of the set S once
RECURSIVE Perms(_)
Perms(S) ==
    IF S = {} THEN {<<>>}
    ELSE UNION {{<<x>> \o p : p \in Perms(S \ {x})} : x \in S}

---------------------------------------------------------------------------
(* The target tree.  A path is the sequence of its components below "/";   *)
(* a tree maps the paths that exist to "file", "dir" or "other" (an entry  *)
(* that is neither, such as a socket or a dangling link).                  *)

\* str(path) of an absolute path
str(path) == <<"/">> \o Join(path, <<"/">>)

\* str(path) of a relative path
relstr(path) == Join(path, <<"/">>)

\* path.name
name(path) == path[Len(path)]

is_file(fs, path) == path \in DOMAIN fs /\ fs[path] = "file"

is_dir(fs, path) == path \in DOMAIN fs /\ fs[path] = "dir"

\* the entries of the directory path
Children(fs, path) ==
    {p \in DOMAIN fs : Len(p) = Len(path) + 1 /\ SubSeq(p, 1, Len(path)) = path}

\* path.iterdir() lists the entries in an order the file system chooses:
\* every assignment of one listing order to each directory
IterdirOrders(fs) ==
    LET dirs == {p \in DOMAIN fs : fs[p] = "dir"}
        all  == UNION {Perms(Children(fs, d)) : d \in dirs}
    IN  {o \in [dirs -> all] : \A d \in dirs : o[d] \in Perms(Children(fs, d))}

---------------------------------------------------------------------------
(* BackupManager: the filter sets and the enumerator *)

DEFAULT_DENYLIST ==
    { <<"_", "_", "p", "y", "c", "a", "c", "h", "e", "_", "_">>,
      <<".", "v", "s", "c", "o", "d", "e">>,
      <<".", "z", "i", "p">> }

\* exclude(pattern): a list or set is merged in, a str is added
exclude(self, pattern, isCollection) ==
    [self EXCEPT !.denylist =
        IF isCollection THEN @ \cup pattern ELSE @ \cup {pattern}]

\* include(pattern): a list or set is merged in, a str is added
include(self, pattern, isCollection) ==
    [self EXCEPT !.allowlist =
        IF isCollection THEN @ \cup pattern ELSE @ \cup {pattern}]

\* isValid with the two priorities exchanged: a deny match wins
isValidDenyFirst(self, fs, path) ==
    LET p   == IF is_dir(fs, path) THEN str(path) \o <<"/">> ELSE str(path)
        res == \E pattern \in self.denylist : In(pattern, p)
    IN  IF res THEN FALSE ELSE TRUE

isValid(self, fs, path) ==
    LET p   == IF is_dir(fs, path) THEN str(path) \o <<"/">> ELSE str(path)
        res == \E pattern \in self.allowlist : In(pattern, p)
    IN  IF res THEN res ELSE ~(\E pattern \in self.denylist : In(pattern, p))

\* the listing left in the order iterdir gave it
unsortedByName(paths) == paths

\* sorted(paths, key=lambda x: x.name)
sortedByName(paths) == sorted(paths, [x \in Range(paths) |-> codes(name(x))], FALSE)

\* the guard applied to files only, every directory being descended into
prunedFilesOnly(self, fs, path) == is_file(fs, path) /\ ~isValid(self, fs, path)

\* the guard of __namelist: an invalid path yields nothing and is not descended
pruned(self, fs, path) == ~isValid(self, fs, path)

\* __namelist(path, parent): the (source path, archive path) pairs in the
\* order the generator yields them; iterdir gives each directory's listing
RECURSIVE namelist(_, _, _, _, _)
namelist(self, fs, iterdir, path, parent) ==
    IF pruned(self, fs, path) THEN <<>>
    ELSE
      LET par == IF parent = None THEN <<name(path)>> ELSE parent \o <<name(path)>>
      IN  IF is_file(fs, path) THEN << <<str(path), relstr(par)>> >>
          ELSE
            LET paths   == iterdir[path]
                isF(p)  == is_file(fs, p)
                isD(p)  == is_dir(fs, p)
                fls     == sortedByName(SelectSeq(paths, isF))
                folders == sortedByName(SelectSeq(paths, isD))
                RECURSIVE each(_)
                each(ps) ==
                    IF ps = <<>> THEN <<>>
                    ELSE namelist(self, fs, iterdir, Head(ps), par) \o each(Tail(ps))
            IN  << <<str(path) \o <<"/">>, relstr(par) \o <<"/">> >> >>
                  \o each(fls) \o each(folders)

---------------------------------------------------------------------------
(* Dates and archive names *)

NoDate == <<0, 0, 0>>

\* n written with width decimal digits, zero padded
RECURSIVE Digits(_, _)
Digits(n, width) ==
    IF width = 0 THEN <<>>
    ELSE Digits(n \div 10, width - 1) \o <<DigitChars[(n % 10) + 1]>>

\* date.strftime("%Y-%m-%d")
strftime(date) ==
    Digits(date[1], 4) \o <<"-">> \o Digits(date[2], 2) \o <<"-">> \o Digits(date[3], 2)

ZIP == <<".", "z", "i", "p">>

\* PurePath.suffix of a file name: from the last dot, unless the dot is the
\* first or the last character
suffix(nm) ==
    LET dots == {i \in 1..Len(nm) : nm[i] = "."}
    IN  IF dots = {} THEN <<>>
        ELSE LET i == CHOOSE i \in dots : \A j \in dots : j <= i
             IN  IF 1 < i /\ i < Len(nm) THEN SubSeq(nm, i, Len(nm)) ELSE <<>>

\* PurePath.stem
stem(nm) == SubSeq(nm, 1, Len(nm) - Len(suffix(nm)))

---------------------------------------------------------------------------
(* BackupManager: construction and the config record *)

AUTO_CLEAN == <<"a", "u", "t", "o", "_", "c", "l", "e", "a", "n">>
ALLOWLIST == <<"a", "l", "l", "o", "w", "l", "i", "s", "t">>
DENYLIST == <<"d", "e", "n", "y", "l", "i", "s", "t">>

\* sorted(aSet) of strings
RECURSIVE sortedSet(_)
sortedSet(S) ==
    IF S = {} THEN <<>>
    ELSE LET x == CHOOSE x \in S : TRUE
         IN  sorted(<<x>> \o sortedSet(S \ {x}), [y \in S |-> codes(y)], FALSE)

\* the record without the allow patterns
infoNoAllowlist(self) ==
    [allowlist |-> <<>>,
     denylist  |-> sortedSet(self.denylist),
     dict      |-> [key \in {k \in DOMAIN self.dict :
                                 /\ Head(k) # "_"
                                 /\ k \notin {ALLOWLIST, DENYLIST}} |->
                        self.dict[key]]]

\* the info property: the record that __save_config dumps.  dict holds the
\* keys of self.__dict__ that do not start with "_" (the name-mangled and
\* the protected attributes are skipped) other than allowlist and denylist
info(self) ==
    [allowlist |-> sortedSet(self.allowlist),
     denylist  |-> sortedSet(self.denylist),
     dict      |-> [key \in {k \in DOMAIN self.dict :
                                 /\ Head(k) # "_"
                                 /\ k \notin {ALLOWLIST, DENYLIST}} |->
                        self.dict[key]]]

\* the construction that adds the record's denylist to the default one
initKeepsDefaults(fs, now, recs, target, arcname, auto_clean, required_config, dateless, preview) ==
    LET base  == IF arcname = None
                 THEN (IF is_file(fs, target) THEN stem(name(target)) ELSE name(target))
                 ELSE (IF EndsWith(arcname, ZIP) THEN Slice(arcname, 0, -4) ELSE arcname)
        self0 == [target          |-> target,
                  required_config |-> required_config,
                  dateless        |-> dateless,
                  today           |-> IF dateless THEN None ELSE now,
                  arcname         |-> IF dateless THEN base \o ZIP
                                      ELSE strftime(now) \o <<"-">> \o base \o ZIP,
                  allowlist       |-> {},
                  denylist        |-> DEFAULT_DENYLIST,
                  cache           |-> base,
                  dict            |-> (AUTO_CLEAN :> auto_clean),
                  preview         |-> preview]
    IN  IF required_config /\ base \in DOMAIN recs
        THEN LET rec == recs[base]
                 s1  == include(self0, Range(rec.allowlist), TRUE)
                 s2  == exclude(s1, Range(rec.denylist), TRUE)
             IN  [s2 EXCEPT !.dict =
                     [key \in DOMAIN rec.dict \cup DOMAIN @ |->
                         IF key \in DOMAIN rec.dict THEN rec.dict[key] ELSE @[key]]]
        ELSE [self0 EXCEPT !.denylist = DEFAULT_DENYLIST]

\* the construction that copies no other key of the record
initKeepsArgument(fs, now, recs, target, arcname, auto_clean, required_config, dateless, preview) ==
    LET base  == IF arcname = None
                 THEN (IF is_file(fs, target) THEN stem(name(target)) ELSE name(target))
                 ELSE (IF EndsWith(arcname, ZIP) THEN Slice(arcname, 0, -4) ELSE arcname)
        self0 == [target          |-> target,
                  required_config |-> required_config,
                  dateless        |-> dateless,
                  today           |-> IF dateless THEN None ELSE now,
                  arcname         |-> IF dateless THEN base \o ZIP
                                      ELSE strftime(now) \o <<"-">> \o base \o ZIP,
                  allowlist       |-> {},
                  denylist        |-> {},
                  cache           |-> base,
                  dict            |-> (AUTO_CLEAN :> auto_clean),
                  preview         |-> preview]
    IN  IF required_config /\ base \in DOMAIN recs
        THEN LET rec == recs[base]
                 s1  == include(self0, Range(rec.allowlist), TRUE)
                 s2  == exclude(s1, Range(rec.denylist), TRUE)
             IN  s2
        ELSE [self0 EXCEPT !.denylist = DEFAULT_DENYLIST]

\* BackupManager.__init__ with the records recs under {save}/cache
init(fs, now, recs, target, arcname, auto_clean, required_config, dateless, preview) ==
    LET base  == IF arcname = None
                 THEN (IF is_file(fs, target) THEN stem(name(target)) ELSE name(target))
                 ELSE (IF EndsWith(arcname, ZIP) THEN Slice(arcname, 0, -4) ELSE arcname)
        self0 == [target          |-> target,
                  required_config |-> required_config,
                  dateless        |-> dateless,
                  today           |-> IF dateless THEN None ELSE now,
                  arcname         |-> IF dateless THEN base \o ZIP
                                      ELSE strftime(now) \o <<"-">> \o base \o ZIP,
                  allowlist       |-> {},
                  denylist        |-> {},
                  cache           |-> base,
                  dict            |-> (AUTO_CLEAN :> auto_clean),
                  preview         |-> preview]
    IN  IF required_config /\ base \in DOMAIN recs
        THEN LET rec == recs[base]
                 s1  == include(self0, Range(rec.allowlist), TRUE)
                 s2  == exclude(s1, Range(rec.denylist), TRUE)
             IN  [s2 EXCEPT !.dict =
                     [key \in DOMAIN rec.dict \cup DOMAIN @ |->
                         IF key \in DOMAIN rec.dict THEN rec.dict[key] ELSE @[key]]]
        ELSE [self0 EXCEPT !.denylist = DEFAULT_DENYLIST]

---------------------------------------------------------------------------
(* BackupManager: the retention pass *)

IsDigit(c) == \E i \in 1..10 : DigitChars[i] = c

\* int(s) for a string of decimal digits; -1 stands for ValueError.  (int()
\* also takes a sign, surrounding blanks and "_" between digits: no name of
\* the model has these in its first ten characters.)
RECURSIVE int(_)
int(s) ==
    IF s = <<>> \/ \E i \in 1..Len(s) : ~IsDigit(s[i]) THEN -1
    ELSE IF Len(s) = 1 THEN (CHOOSE i \in 1..10 : DigitChars[i] = s[1]) - 1
    ELSE 10 * int(SubSeq(s, 1, Len(s) - 1)) + int(<<s[Len(s)]>>)

DaysInMonth(year, month) ==
    IF month \in {4, 6, 9, 11} THEN 30
    ELSE IF month # 2 THEN 31
    ELSE IF (year % 4 = 0 /\ year % 100 # 0) \/ year % 400 = 0 THEN 29
    ELSE 28

\* datetime(year, month, day) is constructed, and does not raise ValueError
datetime(year, month, day) ==
    /\ 1 <= year /\ year <= 9999
    /\ 1 <= month /\ month <= 12
    /\ 1 <= day /\ day <= DaysInMonth(year, month)

\* one turn of the loop of __find_files on the entry nm of the destination:
\* the entry is skipped, or yielded with its date, or ValueError is raised
scan(self, entries, nm) ==
    LET target == Slice(self.arcname, 11, -4)
        skip   == [out |-> "skip", date |-> NoDate]
    IN  IF entries[nm].kind = "dir" \/ suffix(nm) # ZIP THEN skip
        ELSE LET _date == Split(Slice(nm, 0, 10), "-")
             IN  IF Len(_date) # 3 THEN skip
                 ELSE LET y == int(_date[1])
                          m == int(_date[2])
                          d == int(_date[3])
                      IN  IF y = -1 \/ m = -1 \/ d = -1 \/ ~datetime(y, m, d)
                          THEN [out |-> "ValueError", date |-> NoDate]
                          ELSE IF Slice(nm, 11, -4) = target
                               THEN [out |-> "yield", date |-> <<y, m, d>>]
                               ELSE skip

\* __find_files over the destination listed in the order listing: the
\* (name, date) pairs yielded, unless a turn raises
find_files(self, entries, listing) ==
    LET hit(nm) == scan(self, entries, nm).out = "yield"
        found   == SelectSeq(listing, hit)
    IN  [error |-> \E i \in 1..Len(listing) :
                       scan(self, entries, listing[i]).out = "ValueError",
         found |-> [i \in 1..Len(found) |->
                       <<found[i], scan(self, entries, found[i]).date>>]]

\* the window test that lets the current month's archives in as well
inWindowInclusive(date, now) ==
    date[1] < now[1] \/ date[2] <= now[2]

\* the test of __auto_clean for an archive to be considered
inWindow(date, now) ==
    date[1] < now[1] \/ date[2] < now[2]

\* the walk with the reference date never moved on from the newest entry
walkAgainstNewest(fs) ==
    LET res       == fs[1][2]
        same(f)   == f[2][2] = res[2] /\ f[2][1] = res[1]
        unlinked  == SelectSeq(Tail(fs), same)
    IN  [j \in 1..Len(unlinked) |-> unlinked[j][1]]

\* the walk that stops at the first entry it unlinks
walkOnce(fs) ==
    LET idx == {i \in 2..Len(fs) :
                   fs[i][2][2] = fs[i - 1][2][2] /\ fs[i][2][1] = fs[i - 1][2][1]}
    IN  IF idx = {} THEN <<>>
        ELSE << fs[CHOOSE i \in idx : \A j \in idx : i <= j][1] >>

\* the walk of __auto_clean over the candidates sorted newest first: an
\* entry in the (year, month) of the entry before it is unlinked
walk(fs) ==
    LET idx == {i \in 2..Len(fs) :
                   fs[i][2][2] = fs[i - 1][2][2] /\ fs[i][2][1] = fs[i - 1][2][1]}
        RECURSIVE pick(_)
        pick(i) ==
            IF i > Len(fs) THEN <<>>
            ELSE (IF i \in idx THEN <<fs[i][1]>> ELSE <<>>) \o pick(i + 1)
    IN  pick(2)

\* __auto_clean: the names it unlinks, in order, unless __find_files raises
auto_clean(self, entries, listing) ==
    IF self.dateless THEN [error |-> FALSE, unlink |-> <<>>]
    ELSE
      LET ff        == find_files(self, entries, listing)
          cand(f)   == inWindow(f[2], self.today)
          fs        == SelectSeq(ff.found, cand)
      IN  IF ff.error THEN [error |-> TRUE, unlink |-> <<>>]
          ELSE IF Len(fs) < 2 THEN [error |-> FALSE, unlink |-> <<>>]
          ELSE [error |-> FALSE, unlink |-> walk(sorted(fs, [f \in Range(fs) |-> f[2]], TRUE))]

---------------------------------------------------------------------------
(* Use of BackupManager as a library: a session is built on a target tree, *)
(* its filter sets are extended, and the tree is enumerated and queried.   *)

\* the days the script runs on
Today == <<2023, 12, 10>>
EarlierToday == <<2023, 11, 25>>

T == <<"t">>
A == <<"a">>
B == <<"b">>
K == <<"k">>

\* the target of every request
Target == <<T>>

\* the entries a target tree may hold below its root, with their kinds
TreeUniverse ==
    (<<T, A>> :> {"file", "dir"}) @@ (<<T, B>> :> {"file", "dir"})
      @@ (<<T, K>> :> {"file", "other"}) @@ (<<T, A, A>> :> {"file"})
      @@ (<<T, A, K>> :> {"file"})

\* the trees of at most MaxNodes entries: an entry lies in a directory
Trees ==
    {Target :> "file"} \cup
    { (Target :> "dir") @@ fs :
        fs \in { g \in UNION { [D -> {"file", "dir", "other"}] :
                                D \in {E \in SUBSET DOMAIN TreeUniverse :
                                          Cardinality(E) <= MaxNodes} } :
                   \A p \in DOMAIN g :
                       /\ g[p] \in TreeUniverse[p]
                       /\ Len(p) > 2 =>
                             LET par == SubSeq(p, 1, Len(p) - 1)
                             IN  par \in DOMAIN g /\ g[par] = "dir" } }

\* the patterns a caller passes to include() and exclude()
PatternPool == { K, <<"a", "/">> }

\* the number of enumerations compared
MaxRuns == 2

NoCall == [called |-> FALSE, path |-> <<>>, res |-> FALSE]

\* nothing recorded yet for the call in flight
HistInit ==
    [gate     |-> "none",   \* what the config gate of compress() found
     pre      |-> <<>>,     \* the destination entries when compress() was entered
     precache |-> <<>>,     \* the config records when compress() was entered
     preclean |-> <<>>,     \* the destination entries when __auto_clean was entered
     unlinked |-> {},       \* the entries __auto_clean has unlinked
     moved    |-> FALSE,    \* the call has moved its temp file to the archive name
     pass     |-> "none",   \* how the retention pass of the call ended
     at       |-> "none"]   \* where the script was when the interrupt arrived

InitEnum ==
    /\ today = Today
    /\ args = [force |-> FALSE, dateless |-> FALSE, preview |-> FALSE]
    /\ queue = <<>>
    /\ pc = "lib"
    /\ tree \in Trees
    /\ cache = <<>>
    /\ files = <<>>
    /\ mgr = init(tree, today, cache, Target, None, TRUE, TRUE, FALSE, FALSE)
    /\ NAMEDTEMPORARYFILE_NAME = None
    /\ temp = None
    /\ runs = <<>>
    /\ valid = NoCall
    /\ hist = HistInit

\* a call of include(pattern) with a str
LibInclude ==
    /\ pc = "lib"
    /\ Cardinality(mgr.allowlist) < MaxPatterns
    /\ \E pattern \in PatternPool \ mgr.allowlist :
           mgr' = include(mgr, pattern, FALSE)
    /\ runs' = <<>>
    /\ valid' = NoCall
    /\ UNCHANGED <<today, args, queue, pc, files, cache, NAMEDTEMPORARYFILE_NAME,
                   temp, tree, hist>>

\* a call of exclude(pattern) with a str
LibExclude ==
    /\ pc = "lib"
    /\ Cardinality(mgr.denylist \ DEFAULT_DENYLIST) < MaxPatterns
    /\ \E pattern \in PatternPool \ mgr.denylist :
           mgr' = exclude(mgr, pattern, FALSE)
    /\ runs' = <<>>
    /\ valid' = NoCall
    /\ UNCHANGED <<today, args, queue, pc, files, cache, NAMEDTEMPORARYFILE_NAME,
                   temp, tree, hist>>

\* a read of the namelist and arcnamelist properties: the target is walked
\* with whatever listing orders the file system gives
LibNamelist ==
    /\ pc = "lib"
    /\ Len(runs) < MaxRuns
    /\ \E iterdir \in IterdirOrders(tree) :
           runs' = Append(runs, namelist(mgr, tree, iterdir, mgr.target, None))
    /\ valid' = NoCall
    /\ UNCHANGED <<today, args, queue, pc, mgr, files, cache,
                   NAMEDTEMPORARYFILE_NAME, temp, tree, hist>>

\* a call of isValid(path) on an entry of the tree
LibIsValid ==
    /\ pc = "lib"
    /\ \E path \in DOMAIN tree :
           valid' = [called |-> TRUE, path |-> path, res |-> isValid(mgr, tree, path)]
    /\ runs' = <<>>
    /\ UNCHANGED <<today, args, queue, pc, mgr, files, cache,
                   NAMEDTEMPORARYFILE_NAME, temp, tree, hist>>

NextEnum == LibInclude \/ LibExclude \/ LibNamelist \/ LibIsValid

SpecEnum == InitEnum /\ [][NextEnum]_vars

---------------------------------------------------------------------------
(* The script: main() serves the archive requests of the command line one  *)
(* after the other, each with a new BackupManager and one compress() call; *)
(* KeyboardInterrupt can be raised between any two steps.                  *)

CACHE == <<"c", "a", "c", "h", "e">>

Dir == [kind |-> "dir", data |-> <<>>]

\* a file of the destination holding the archive members data
File(data) == [kind |-> "file", data |-> data]

\* an archive written by an earlier run
OldArchive == File(<< <<"o", "l", "d">> >>)

\* the function f without the argument x
Without(f, x) == [y \in DOMAIN f \ {x} |-> f[y]]

\* the function f with f[x] = v
With(f, x, v) == [y \in DOMAIN f \cup {x} |-> IF y = x THEN v ELSE f[y]]

\* the -f (name None) and -n requests of the command line
RequestPool ==
    { [path |-> Target, name |-> None],
      [path |-> Target, name |-> A \o ZIP] }

\* args.f followed by args.n: at least one and at most MaxRequests requests
Queues ==
    { q \in UNION {[1..n -> RequestPool] : n \in 1..MaxRequests} :
        \A i \in 1..(Len(q) - 1) : q[i].name # None => q[i + 1].name # None }

\* the tree every request of the script archives
TargetTree == (Target :> "dir") @@ (<<T, A>> :> "file") @@ (<<T, K>> :> "file")

\* a key of a record that BackupManager does not know
NOTE == <<"n", "o", "t", "e">>

\* the record a first run writes, a record its user has edited since, and a
\* record edited by hand: lists out of order with an entry twice, auto_clean
\* switched off, and a key of the user's own
RecordPool ==
    { [allowlist |-> <<>>, denylist |-> sortedSet(DEFAULT_DENYLIST),
       dict |-> (AUTO_CLEAN :> TRUE)],
      [allowlist |-> <<>>, denylist |-> <<ZIP, K>>,
       dict |-> (AUTO_CLEAN :> TRUE)],
      [allowlist |-> <<A>>, denylist |-> <<K, ZIP, K>>,
       dict |-> (AUTO_CLEAN :> FALSE) @@ (NOTE :> TRUE)] }

\* the records under {destination}/cache before the script starts
Caches == {<<>>} \cup {A :> rec : rec \in RecordPool}

\* the names of the day's archive, dated and dateless
FilePool ==
    { strftime(Today) \o <<"-">> \o A \o ZIP,
      A \o ZIP }

\* the dates of the archives of earlier runs: two past months, the current
\* month and a month of next year
ArchiveDates ==
    { <<2022, 12, 5>>, <<2022, 12, 20>>, <<2023, 11, 2>>, <<2023, 11, 20>>,
      <<2023, 12, 5>>, <<2024, 11, 2>>, <<2024, 11, 20>> }

\* the entries a destination may hold: the dated archives of the name a, an
\* archive of another name, one with another character after the date, and
\* a dateless archive with dashes in its name
ArchivePool ==
    { strftime(d) \o <<"-">> \o A \o ZIP : d \in ArchiveDates }
      \cup { strftime(<<2023, 11, 2>>) \o <<"-">> \o T \o ZIP,
             strftime(<<2023, 11, 20>>) \o <<"_">> \o A \o ZIP,
             <<"x", "-", "y", "-", "z">> \o ZIP }

\* the destination before the script starts: the cache directory is there
\* when a record is
Destinations(pool, recs) ==
    { [nm \in S |-> OldArchive] @@ d :
        S \in {E \in SUBSET pool : Cardinality(E) <= MaxFiles},
        d \in (IF recs = <<>> THEN {<<>>, CACHE :> Dir} ELSE {CACHE :> Dir}) }

\* no BackupManager has been constructed yet
NoManager ==
    [target |-> <<>>, required_config |-> FALSE, dateless |-> FALSE, today |-> None,
     arcname |-> <<>>, allowlist |-> {}, denylist |-> {}, cache |-> <<>>,
     dict |-> <<>>, preview |-> FALSE]

\* any command line, on a destination that holds at most the day's archives
InitAnyFlags ==
    /\ today = Today
    /\ args \in [force : BOOLEAN, dateless : BOOLEAN, preview : BOOLEAN]
    /\ queue \in Queues
    /\ cache \in Caches
    /\ files \in Destinations(FilePool, cache)

\* one dated request under its config record, on a destination that holds
\* archives of earlier runs
InitManyArchives ==
    /\ today \in {Today, EarlierToday}
    /\ args = [force |-> FALSE, dateless |-> FALSE, preview |-> FALSE]
    /\ queue = << [path |-> Target, name |-> A \o ZIP] >>
    /\ cache \in {c \in Caches : c # <<>>}
    /\ files \in Destinations(ArchivePool, cache)

Init ==
    /\ pc = "main"
    /\ tree = TargetTree
    /\ InitAnyFlags \/ InitManyArchives
    /\ mgr = NoManager
    /\ NAMEDTEMPORARYFILE_NAME = None
    /\ temp = None
    /\ runs = <<>>
    /\ valid = NoCall
    /\ hist = HistInit

\* main(): the next request is served: BackupManager(...) is constructed,
\* which creates {save}/cache and loads the record, and compress() is entered
Construct ==
    /\ pc = "main"
    /\ queue # <<>>
    /\ LET req == Head(queue)
           dst == IF CACHE \in DOMAIN files THEN files ELSE With(files, CACHE, Dir)
       IN  /\ mgr' = init(tree, today, cache, req.path, req.name,
                          ~args.force, ~args.force, args.dateless, args.preview)
           /\ files' = dst
           /\ hist' = [HistInit EXCEPT !.pre = dst, !.precache = cache]
    /\ queue' = Tail(queue)
    /\ pc' = "compress"
    /\ UNCHANGED <<today, args, cache, NAMEDTEMPORARYFILE_NAME, temp, tree, runs, valid>>

\* main() returns: every request has been served
Finish ==
    /\ pc = "main"
    /\ queue = <<>>
    /\ pc' = "done"
    /\ UNCHANGED <<today, args, queue, mgr, files, cache, NAMEDTEMPORARYFILE_NAME,
                   temp, tree, runs, valid, hist>>

\* the save that leaves a record that is there as it is
save_configIfAbsent(self, recs) ==
    IF self.cache \in DOMAIN recs THEN recs ELSE With(recs, self.cache, info(self))

\* __save_config: json.dump(self.info) into the record of the session
save_config(self, recs) == With(recs, self.cache, info(self))

\* the gate that writes the missing record and lets the call go on
gateNoReturn(self, recs) ==
    IF self.required_config
    THEN [recs |-> save_config(self, recs), goes |-> TRUE]
    ELSE [recs |-> recs, goes |-> TRUE]

\* the gate that looks for the record whatever the session requires
gateWhateverFlags(self, recs) ==
    IF self.cache \notin DOMAIN recs
    THEN [recs |-> save_config(self, recs), goes |-> FALSE]
    ELSE [recs |-> save_config(self, recs), goes |-> TRUE]

\* the config gate of compress(): the records after it, and whether the
\* call goes on to write the archive
gate(self, recs) ==
    IF self.required_config
    THEN IF self.cache \notin DOMAIN recs
         THEN [recs |-> save_config(self, recs), goes |-> FALSE]
         ELSE [recs |-> save_config(self, recs), goes |-> TRUE]
    ELSE [recs |-> recs, goes |-> TRUE]

\* compress(): required config and no record: the record is written and the
\* call returns
GateSkip ==
    /\ pc = "compress"
    /\ mgr.required_config /\ mgr.cache \notin DOMAIN cache
    /\ cache' = gate(mgr, cache).recs
    /\ pc' = IF gate(mgr, cache).goes THEN "mktemp" ELSE "main"
    /\ hist' = [hist EXCEPT !.gate = "absent"]
    /\ UNCHANGED <<today, args, queue, mgr, files, NAMEDTEMPORARYFILE_NAME, temp,
                   tree, runs, valid>>

\* compress(): required config and a record: it is written again
GateSave ==
    /\ pc = "compress"
    /\ mgr.required_config /\ mgr.cache \in DOMAIN cache
    /\ cache' = gate(mgr, cache).recs
    /\ pc' = IF gate(mgr, cache).goes THEN "mktemp" ELSE "main"
    /\ hist' = [hist EXCEPT !.gate = "present"]
    /\ UNCHANGED <<today, args, queue, mgr, files, NAMEDTEMPORARYFILE_NAME, temp,
                   tree, runs, valid>>

\* compress(): no config required
GatePass ==
    /\ pc = "compress"
    /\ ~mgr.required_config
    /\ cache' = gate(mgr, cache).recs
    /\ pc' = IF gate(mgr, cache).goes THEN "mktemp" ELSE "main"
    /\ hist' = [hist EXCEPT !.gate = "unchecked"]
    /\ UNCHANGED <<today, args, queue, mgr, files, NAMEDTEMPORARYFILE_NAME, temp,
                   tree, runs, valid>>

\* the name NamedTemporaryFile gives the file: the prefix and a part no
\* entry of the directory has yet (the first free digit stands for it)
tempname(self, entries) ==
    LET parts  == Split(str(self.target), "/")
        prefix == parts[Len(parts)] \o <<"_">>
        k      == CHOOSE i \in 1..10 :
                      /\ prefix \o <<DigitChars[i]>> \notin DOMAIN entries
                      /\ \A j \in 1..(i - 1) : prefix \o <<DigitChars[j]>> \in DOMAIN entries
    IN  prefix \o <<DigitChars[k]>>

\* compress(): temp = tempfile.NamedTemporaryFile(..., delete=False)
MkTemp ==
    /\ pc = "mktemp"
    /\ temp' = tempname(mgr, files)
    /\ files' = With(files, temp', File(<<>>))
    /\ pc' = "setname"
    /\ UNCHANGED <<today, args, queue, mgr, cache, NAMEDTEMPORARYFILE_NAME, tree,
                   runs, valid, hist>>

\* compress(): NAMEDTEMPORARYFILE_NAME = temp.name
SetName ==
    /\ pc = "setname"
    /\ NAMEDTEMPORARYFILE_NAME' = temp
    /\ pc' = IF mgr.preview THEN "preview" ELSE "write"
    /\ UNCHANGED <<today, args, queue, mgr, files, cache, temp, tree, runs, valid, hist>>

\* compress() in preview mode: the entries are listed and the call returns
Preview ==
    /\ pc = "preview"
    /\ pc' = "main"
    /\ UNCHANGED <<today, args, queue, mgr, files, cache, NAMEDTEMPORARYFILE_NAME,
                   temp, tree, runs, valid, hist>>

\* the archive members compress() writes, in order: the archive paths of
\* the enumeration
members(self, fs, iterdir) ==
    LET nl == namelist(self, fs, iterdir, self.target, None)
    IN  [i \in 1..Len(nl) |-> nl[i][2]]

\* compress(): one turn of the loop: archive.write(filename, arcname)
WriteEntry ==
    /\ pc = "write"
    /\ \E iterdir \in IterdirOrders(tree) :
           LET ms == members(mgr, tree, iterdir)
               n  == Len(files[temp].data)
           IN  /\ n < Len(ms)
               /\ files' = With(files, temp, File(Append(files[temp].data, ms[n + 1])))
    /\ UNCHANGED <<today, args, queue, pc, mgr, cache, NAMEDTEMPORARYFILE_NAME, temp,
                   tree, runs, valid, hist>>

\* a failed write that goes on to publish what has been written
WriteFailThenMove ==
    /\ pc = "write"
    /\ pc' = "move"
    /\ UNCHANGED <<today, args, queue, mgr, files, cache, NAMEDTEMPORARYFILE_NAME,
                   temp, tree, runs, valid, hist>>

\* compress(): the enumeration, os.path.getsize or archive.write raises: the
\* exception leaves compress() and main(), and the script ends
WriteFail ==
    /\ pc = "write"
    /\ pc' = "failed"
    /\ UNCHANGED <<today, args, queue, mgr, files, cache, NAMEDTEMPORARYFILE_NAME,
                   temp, tree, runs, valid, hist>>

\* compress(): the loop is over: the archive and temp are closed
Close ==
    /\ pc = "write"
    /\ \E iterdir \in IterdirOrders(tree) :
           Len(files[temp].data) = Len(members(mgr, tree, iterdir))
    /\ pc' = "move"
    /\ UNCHANGED <<today, args, queue, mgr, files, cache, NAMEDTEMPORARYFILE_NAME,
                   temp, tree, runs, valid, hist>>

\* compress(): shutil.move(NAMEDTEMPORARYFILE_NAME, f'{save}/{arcname}')
Move ==
    /\ pc = "move"
    /\ files' = With(Without(files, NAMEDTEMPORARYFILE_NAME), mgr.arcname,
                     files[NAMEDTEMPORARYFILE_NAME])
    /\ hist' = [hist EXCEPT !.moved = TRUE]
    /\ pc' = "clearname"
    /\ UNCHANGED <<today, args, queue, mgr, cache, NAMEDTEMPORARYFILE_NAME, temp,
                   tree, runs, valid>>

\* compress(): NAMEDTEMPORARYFILE_NAME = None
ClearName ==
    /\ pc = "clearname"
    /\ NAMEDTEMPORARYFILE_NAME' = None
    /\ pc' = "clean"
    /\ UNCHANGED <<today, args, queue, mgr, files, cache, temp, tree, runs, valid, hist>>

\* compress(): self.auto_clean is false: the call returns
NoClean ==
    /\ pc = "clean"
    /\ ~mgr.dict[AUTO_CLEAN]
    /\ pc' = "main"
    /\ UNCHANGED <<today, args, queue, mgr, files, cache, NAMEDTEMPORARYFILE_NAME,
                   temp, tree, runs, valid, hist>>

\* self.__save.iterdir() lists the destination in an order the file system
\* chooses.  The order matters to __auto_clean only between two archives of
\* one date (the sort is stable); the ascending and the descending order of
\* names put every two entries both ways round
Listings(entries) ==
    LET up == sortedSet(DOMAIN entries)
    IN  {up, [i \in 1..Len(up) |-> up[Len(up) + 1 - i]]}

\* the entries left when the names of the sequence gone are unlinked
Unlinked(entries, gone) == [nm \in DOMAIN entries \ Range(gone) |-> entries[nm]]

\* compress(): __auto_clean runs to its end, and the call returns
AutoClean ==
    /\ pc = "clean"
    /\ mgr.dict[AUTO_CLEAN]
    /\ \E listing \in Listings(files) :
           LET res == auto_clean(mgr, files, listing)
           IN  /\ ~res.error
               /\ files' = Unlinked(files, res.unlink)
               /\ hist' = [hist EXCEPT !.preclean = files,
                                       !.unlinked = Range(res.unlink),
                                       !.pass = "done"]
    /\ pc' = "main"
    /\ UNCHANGED <<today, args, queue, mgr, cache, NAMEDTEMPORARYFILE_NAME, temp,
                   tree, runs, valid>>

\* compress(): __find_files raises ValueError on an entry of the
\* destination: the exception leaves __auto_clean, compress() and main()
AutoCleanValueError ==
    /\ pc = "clean"
    /\ mgr.dict[AUTO_CLEAN]
    /\ \E listing \in Listings(files) : auto_clean(mgr, files, listing).error
    /\ hist' = [hist EXCEPT !.preclean = files, !.pass = "ValueError"]
    /\ pc' = "failed"
    /\ UNCHANGED <<today, args, queue, mgr, files, cache, NAMEDTEMPORARYFILE_NAME,
                   temp, tree, runs, valid>>

\* compress(): path.unlink() raises on the k-th entry __auto_clean comes to
\* unlink: the entries before it are gone, and the exception leaves
\* __auto_clean, compress() and main()
AutoCleanUnlinkFails ==
    /\ pc = "clean"
    /\ mgr.dict[AUTO_CLEAN]
    /\ \E listing \in Listings(files) :
           LET res == auto_clean(mgr, files, listing)
           IN  /\ ~res.error
               /\ \E k \in 1..Len(res.unlink) :
                      /\ files' = Unlinked(files, SubSeq(res.unlink, 1, k - 1))
                      /\ hist' = [hist EXCEPT
                                     !.preclean = files,
                                     !.unlinked = Range(SubSeq(res.unlink, 1, k - 1)),
                                     !.pass = "unlink"]
    /\ pc' = "failed"
    /\ UNCHANGED <<today, args, queue, mgr, cache, NAMEDTEMPORARYFILE_NAME, temp,
                   tree, runs, valid>>

\* what the handler of KeyboardInterrupt does to the destination: the file
\* NAMEDTEMPORARYFILE_NAME names is unlinked, if there is a name (when
\* the file is not there os.unlink raises and nothing changes)
handler(pending, entries) ==
    IF pending # None /\ pending \in DOMAIN entries
    THEN Without(entries, pending)
    ELSE entries

\* KeyboardInterrupt is raised while main() runs, and the handler of the
\* script runs
Interrupt ==
    /\ pc \notin {"done", "failed", "interrupted", "lib"}
    /\ files' = handler(NAMEDTEMPORARYFILE_NAME, files)
    /\ hist' = [hist EXCEPT !.at = pc]
    /\ pc' = "interrupted"
    /\ UNCHANGED <<today, args, queue, mgr, cache, NAMEDTEMPORARYFILE_NAME, temp,
                   tree, runs, valid>>

Next ==
    \/ Construct \/ Finish
    \/ GateSkip \/ GateSave \/ GatePass
    \/ MkTemp \/ SetName \/ Preview
    \/ WriteEntry \/ WriteFail \/ Close \/ Move \/ ClearName
    \/ NoClean \/ AutoClean \/ AutoCleanValueError \/ AutoCleanUnlinkFails
    \/ Interrupt

Spec == Init /\ [][Next]_vars

---------------------------------------------------------------------------
(* Claims about the script (Spec) *)

\* the dates that occur in the model
ModelDates == ArchiveDates \cup {Today, EarlierToday}

\* nm is an archive dated d of the name remainder base: ten characters of
\* date, one character, the remainder, ".zip"
IsArchive(nm, d, base) ==
    /\ Len(nm) = 11 + Len(base) + 4
    /\ SubSeq(nm, 1, 10) = strftime(d)
    /\ SubSeq(nm, 12, 11 + Len(base)) = base
    /\ SubSeq(nm, Len(nm) - 3, Len(nm)) = ZIP

\* the date of the archive nm of the name remainder base
DateOf(nm, base) == CHOOSE d \in ModelDates : IsArchive(nm, d, base)

\* the dated archives of the name remainder base among entries
Archives(entries, base) ==
    {nm \in DOMAIN entries :
        entries[nm].kind = "file" /\ \E d \in ModelDates : IsArchive(nm, d, base)}

\* d1 < d2 for datetimes
DateLess(d1, d2) ==
    \/ d1[1] < d2[1]
    \/ d1[1] = d2[1] /\ d1[2] < d2[2]
    \/ d1[1] = d2[1] /\ d1[2] = d2[2] /\ d1[3] < d2[3]

\* months since year 0: the chronological order of (year, month)
YM(d) == 12 * d[1] + d[2]

\* the name remainder of the session's archive
Base == mgr.cache

Untouched == files = hist.pre /\ cache = hist.precache

\* C2 (as claimed): a compress() call in preview mode creates, modifies and
\* deletes no file under the destination: while the call runs and after it
\* has returned, the entries and the records are as the call found them
C2_PreviewTouchesNothing ==
    (mgr.preview /\ hist.at = "none" /\ pc \notin {"main", "done"}) => Untouched

\* C3: with config required and no record, compress() creates the record
\* holding the session's info and nothing else, creates no temp file and
\* publishes, replaces and deletes no archive; and under required config
\* only a call that found the record has published an archive
C3_GatedFirstRun ==
    /\ (hist.gate = "absent" /\ hist.at = "none") =>
           /\ pc \in {"main", "done"}
           /\ files = hist.pre
           /\ ~hist.moved
           /\ mgr.cache \notin DOMAIN hist.precache
           /\ DOMAIN cache = DOMAIN hist.precache \cup {mgr.cache}
           /\ cache[mgr.cache] = info(mgr)
           /\ \A b \in DOMAIN hist.precache : cache[b] = hist.precache[b]
    /\ (hist.moved /\ mgr.required_config) => hist.gate = "present"

\* C3 witness: a call under required config has returned at the gate, on a
\* destination that held an archive of the day
C3_Witness ==
    /\ hist.gate = "absent"
    /\ pc = "main"
    /\ mgr.required_config
    /\ mgr.arcname \in DOMAIN files
    /\ mgr.cache \in DOMAIN cache

\* C4 (as claimed): every archive auto_clean deletes is dated in a (year,
\* month) before today's
C4_OnlyPastMonthsDeleted ==
    \A nm \in hist.unlinked : YM(DateOf(nm, Base)) < YM(mgr.today)

\* C5: auto_clean deletes no archive of today's (year, month), and the
\* archive compress() has just published is there after the pass
C5_CurrentMonthKept ==
    /\ \A nm \in hist.unlinked : YM(DateOf(nm, Base)) # YM(mgr.today)
    /\ (hist.pass = "done" /\ ~mgr.dateless) =>
           /\ mgr.arcname \in DOMAIN files
           /\ \A nm \in Archives(hist.preclean, Base) :
                  YM(DateOf(nm, Base)) = YM(mgr.today) =>
                      nm \in DOMAIN files /\ files[nm] = hist.preclean[nm]

\* C5 witness: the pass has unlinked an archive while the destination held
\* two archives of the current month, the published one among them
C5_Witness ==
    /\ hist.pass = "done"
    /\ hist.unlinked # {}
    /\ Cardinality({nm \in Archives(hist.preclean, Base) :
                       YM(DateOf(nm, Base)) = YM(mgr.today)}) >= 2
    /\ mgr.arcname \in DOMAIN files

\* the positions of a normal-mode compress() from the creation of the temp
\* file to the return of the call
InFlight == {"setname", "write", "move", "clearname", "clean"}

\* C6 (as claimed): while a normal-mode compress() is in flight the pending
\* path names the temp file that exists, and once the handler has run on an
\* interrupt that arrived then, the call's temp file is not in the destination
C6_NoOrphanTemp ==
    ~mgr.preview =>
        /\ (pc \in InFlight /\ temp \in DOMAIN files) => NAMEDTEMPORARYFILE_NAME = temp
        /\ (pc = "interrupted" /\ hist.at \in InFlight) => temp \notin DOMAIN files

\* e is in both or in neither of the two directories, with the same content
Same(e, entries1, entries2) ==
    /\ e \in DOMAIN entries1 <=> e \in DOMAIN entries2
    /\ e \in DOMAIN entries1 => entries1[e] = entries2[e]

\* C7: in normal mode the published archive is created or replaced by the
\* move alone, which comes after every enumerated entry has been written:
\* until the move, and for good when a step fails, the entry of the archive
\* name is as the call found it and nothing is unlinked; after the move it
\* holds every member of the enumeration
C7_PublishedOnlyByMove ==
    (mgr # NoManager /\ ~mgr.preview) =>
        IF hist.moved
        THEN /\ mgr.arcname \in DOMAIN files
             /\ \A iterdir \in IterdirOrders(tree) :
                    files[mgr.arcname].data = members(mgr, tree, iterdir)
        ELSE /\ Same(mgr.arcname, files, hist.pre)
             /\ hist.unlinked = {}
             /\ \A nm \in Archives(hist.pre, Base) : nm \in DOMAIN files

\* C7 witness: a write has failed after an entry was written, on a
\* destination that holds an archive of the published name
C7_Witness ==
    /\ pc = "failed"
    /\ ~hist.moved
    /\ hist.pass = "none"
    /\ temp \in DOMAIN files
    /\ Len(files[temp].data) >= 1
    /\ mgr.arcname \in DOMAIN files
    /\ files[mgr.arcname] = OldArchive

\* C11: retention is idempotent: once auto_clean has run to its end, a second
\* run on the destination it left, whatever order the destination is listed
\* in, raises nothing and unlinks nothing
C11_RetentionIdempotent ==
    hist.pass = "done" =>
        \A listing \in Listings(files) :
            LET again == auto_clean(mgr, files, listing)
            IN  /\ ~again.error
                /\ again.unlink = <<>>
                /\ Unlinked(files, again.unlink) = files

\* C11 witness: the pass has run to its end and has unlinked two archives or
\* more
C11_Witness ==
    /\ hist.pass = "done"
    /\ Cardinality(hist.unlinked) >= 2
    /\ DOMAIN files = DOMAIN hist.preclean \ hist.unlinked

\* the session a later run of the script constructs for the destination and
\* the name of the session at hand, with config required
Reloaded ==
    init(tree, today, cache, mgr.target, mgr.cache, TRUE, TRUE, mgr.dateless,
         mgr.preview)

\* C12: config round trip: once a compress() under required config has
\* published its archive, a new session constructed for the same destination
\* and name with config required has the allow set and the deny set of the
\* publishing session
C12_ConfigRoundTrip ==
    (hist.moved /\ mgr.required_config) =>
        /\ Reloaded.allowlist = mgr.allowlist
        /\ Reloaded.denylist = mgr.denylist

\* C12 witness: a compress() under required config has published and
\* returned, in a session whose sets came from a hand-edited record: an allow
\* pattern, and a deny set other than the default
C12_Witness ==
    /\ hist.moved
    /\ mgr.required_config
    /\ pc = "main"
    /\ mgr.allowlist # {}
    /\ mgr.denylist # DEFAULT_DENYLIST
    /\ mgr.cache \in DOMAIN cache

\* C13 (as claimed): an unlink that fails during the retention pass does not
\* abort the backup: the published archive stays, the pass goes on to the
\* candidates that remain, and compress() returns to main(), which serves
\* the requests that are left
C13_UnlinkFailureDoesNotAbort ==
    hist.pass = "unlink" =>
        /\ mgr.arcname \in DOMAIN files
        /\ pc # "failed"
        /\ \A listing \in Listings(files) : auto_clean(mgr, files, listing).unlink = <<>>

\* the record of the session on disk holds the session's state: the sorted
\* allowlist, the sorted denylist and the public attributes
RecordIsCurrent == mgr.cache \in DOMAIN cache /\ cache[mgr.cache] = info(mgr)

\* C14 (as claimed): every compress() that has published its archive leaves
\* the record on disk equal to the session's state, whatever flags the
\* session was built with
C14_WriteThroughWhateverFlags ==
    hist.moved => RecordIsCurrent

\* C14 (amended): every compress() of a session built with config required
\* that has published its archive leaves the record on disk equal to the
\* session's state
C14_WriteThrough ==
    (hist.moved /\ mgr.required_config) => RecordIsCurrent

\* C14 witness: a compress() under required config has published and
\* returned, and the record it found, edited by hand, was not what it has
\* written
C14_Witness ==
    /\ hist.moved
    /\ mgr.required_config
    /\ pc = "main"
    /\ hist.precache[mgr.cache] # info(mgr)
    /\ RecordIsCurrent

\* C15: with --force the session is built with required_config and
\* auto_clean false: no record is applied to it (its sets are the defaults),
\* compress() passes the gate without looking for a record and without
\* writing one, publishes the archive when it returns, runs no retention
\* pass, and leaves every other archive of the destination as it found it
C15_ForceIgnoresConfigKeepsArchives ==
    (mgr # NoManager /\ args.force) =>
        /\ ~mgr.required_config
        /\ mgr.dict = (AUTO_CLEAN :> FALSE)
        /\ mgr.allowlist = {}
        /\ mgr.denylist = DEFAULT_DENYLIST
        /\ cache = hist.precache
        /\ hist.gate \in {"none", "unchecked"}
        /\ hist.pass = "none"
        /\ hist.unlinked = {}
        /\ \A nm \in DOMAIN hist.pre :
               (suffix(nm) = ZIP /\ nm # mgr.arcname) => Same(nm, files, hist.pre)
        /\ (pc \in {"main", "done"} /\ ~mgr.preview) =>
               /\ hist.moved
               /\ mgr.arcname \in DOMAIN files
               /\ \A iterdir \in IterdirOrders(tree) :
                      files[mgr.arcname].data = members(mgr, tree, iterdir)

\* C15 witness: under --force two requests have been served: the first
\* published the archive of the name t, which has no record, and the second
\* has published the archive of the name a, whose hand-edited record is still
\* on disk, next to an archive of an earlier run
C15_Witness ==
    /\ args.force
    /\ pc = "main"
    /\ hist.moved
    /\ T \notin DOMAIN cache
    /\ strftime(Today) \o <<"-">> \o T \o ZIP \in DOMAIN files
    /\ mgr.cache \in DOMAIN cache
    /\ cache[mgr.cache].allowlist # <<>>
    /\ \E nm \in DOMAIN files : files[nm] = OldArchive

\* nm is the name of a dated archive: a date of ten characters, a dash, a
\* name and ".zip"
IsDated(nm) ==
    /\ Len(nm) >= 15
    /\ suffix(nm) = ZIP
    /\ nm[11] = "-"
    /\ \E d \in ModelDates : SubSeq(nm, 1, 10) = strftime(d)

\* the name remainder of an archive: what stands after the date prefix and
\* the dash and before ".zip"; a dateless archive has no prefix
Remainder(nm) ==
    IF IsDated(nm) THEN SubSeq(nm, 12, Len(nm) - 4) ELSE SubSeq(nm, 1, Len(nm) - 4)

\* C16 (as claimed): every entry auto_clean unlinks is a non-directory entry
\* of the destination with the suffix .zip whose name remainder is the one of
\* the session's archive, and the archives of every other name are left as
\* the pass found them
C16_OnlySameNameDeleted ==
    /\ \A nm \in hist.unlinked :
           /\ nm \in DOMAIN hist.preclean
           /\ hist.preclean[nm].kind = "file"
           /\ suffix(nm) = ZIP
           /\ Remainder(nm) = Remainder(mgr.arcname)
    /\ hist.pass # "none" =>
           \A nm \in DOMAIN hist.preclean :
               (suffix(nm) = ZIP /\ Remainder(nm) # Remainder(mgr.arcname))
                   => Same(nm, files, hist.preclean)

\* the entry nm is not a dated archive: it is a directory, or has not the
\* suffix .zip, or its first ten characters are not a date
Undated(entries, nm) ==
    \/ entries[nm].kind = "dir"
    \/ suffix(nm) # ZIP
    \/ ~\E d \in ModelDates : Slice(nm, 0, 10) = strftime(d)

\* C17 (as claimed): the retention scan skips every entry that is not a dated
\* archive: the pass does not fail on it, does not unlink it, and goes on to
\* the end over the other entries
C17_ScanSkipsUndated ==
    hist.pass # "none" =>
        /\ hist.pass # "ValueError"
        /\ \A nm \in DOMAIN hist.preclean :
               Undated(hist.preclean, nm) =>
                   nm \notin hist.unlinked /\ Same(nm, files, hist.preclean)

\* the session at hand was constructed with config required and found the
\* record of its name
Loaded ==
    mgr # NoManager /\ mgr.required_config /\ mgr.cache \in DOMAIN hist.precache

\* the record the session at hand was constructed from
Record == hist.precache[mgr.cache]

\* C18 (as claimed): a session constructed from a record has every entry of
\* the record's allowlist in its allow set, and every entry of the record's
\* denylist together with the default denylist entries in its deny set
C18_LoadingKeepsDefaults ==
    Loaded =>
        /\ Range(Record.allowlist) \subseteq mgr.allowlist
        /\ Range(Record.denylist) \cup DEFAULT_DENYLIST \subseteq mgr.denylist

\* C18 (amended): a session constructed from a record has the entries of the
\* record's allowlist as its allow set and the entries of the record's
\* denylist as its deny set: a default denylist entry is in the deny set only
\* when the record lists it
C18_LoadingTakesTheRecord ==
    Loaded =>
        /\ mgr.allowlist = Range(Record.allowlist)
        /\ mgr.denylist = Range(Record.denylist)

\* C18 witness: a session has just been constructed from a record with an
\* allow pattern and a denylist that lacks default entries
C18_Witness ==
    /\ Loaded
    /\ pc = "compress"
    /\ Record.allowlist # <<>>
    /\ ~(DEFAULT_DENYLIST \subseteq Range(Record.denylist))
    /\ K \in mgr.denylist

\* C19: a session constructed from a record has every key of the record
\* other than allowlist and denylist as an attribute with the record's value,
\* auto_clean in place of the constructor's argument among them; a compress()
\* that has published and returned has run the retention pass exactly when
\* the record's auto_clean is true, and the record it has written holds the
\* values of these keys
C19_RecordDecidesAutoClean ==
    Loaded =>
        /\ \A key \in DOMAIN Record.dict :
               key \in DOMAIN mgr.dict /\ mgr.dict[key] = Record.dict[key]
        /\ hist.pass # "none" => Record.dict[AUTO_CLEAN]
        /\ (hist.moved /\ pc \in {"main", "done"}) =>
               (hist.pass = "done" <=> Record.dict[AUTO_CLEAN])
        /\ hist.gate = "present" =>
               \A key \in DOMAIN Record.dict :
                   /\ key \in DOMAIN cache[mgr.cache].dict
                   /\ cache[mgr.cache].dict[key] = Record.dict[key]

\* C19 witness: the script, which passes auto_clean true, has published under
\* a record whose auto_clean is false, and compress() has returned without a
\* retention pass from a destination where the pass would have unlinked an
\* archive
C19_Witness ==
    /\ Loaded
    /\ ~args.force
    /\ ~Record.dict[AUTO_CLEAN]
    /\ NOTE \in DOMAIN mgr.dict
    /\ hist.moved
    /\ pc = "main"
    /\ hist.pass = "none"
    /\ \E listing \in Listings(files) : auto_clean(mgr, files, listing).unlink # <<>>

---------------------------------------------------------------------------
(* Claims about the path filter and the enumerator (SpecEnum) *)

\* sub occurs in s: s is some prefix, then sub, then some suffix
IsSubstring(sub, s) ==
    \E i \in 0..Len(s) : \E j \in i..Len(s) : SubSeq(s, i + 1, j) = sub

\* the string isValid tests: a directory gets a trailing separator
Tested(fs, path) == IF is_dir(fs, path) THEN str(path) \o <<"/">> ELSE str(path)

AllowHit(path) == \E pattern \in mgr.allowlist : IsSubstring(pattern, Tested(tree, path))

DenyHit(path) == \E pattern \in mgr.denylist : IsSubstring(pattern, Tested(tree, path))

\* p is d or lies below d
Below(p, d) == Len(d) <= Len(p) /\ SubSeq(p, 1, Len(d)) = d

\* the source paths a run of the enumerator yielded
Sources(run) == {run[i][1] : i \in 1..Len(run)}

\* C8: pruning is transitive: when isValid is false for a directory, neither
\* the directory nor any entry below it is in the enumeration output, also
\* when an entry below it contains an allow pattern
C8_PruningTransitive ==
    \A i \in 1..Len(runs) :
        \A d \in DOMAIN tree :
            (is_dir(tree, d) /\ ~isValid(mgr, tree, d)) =>
                \A p \in DOMAIN tree :
                    Below(p, d) =>
                        /\ str(p) \notin Sources(runs[i])
                        /\ str(p) \o <<"/">> \notin Sources(runs[i])

\* C8 witness: an enumeration that yielded entries was made of a tree with a
\* denied directory that holds an entry matching an allow pattern
C8_Witness ==
    /\ Len(runs) >= 1
    /\ Len(runs[1]) >= 1
    /\ \E d \in DOMAIN tree :
           /\ is_dir(tree, d)
           /\ ~isValid(mgr, tree, d)
           /\ \E p \in DOMAIN tree : Below(p, d) /\ p # d /\ AllowHit(p)

\* C9: isValid is true whenever the tested string contains an allow pattern,
\* whatever the deny set holds; with no allow match it is true exactly when
\* no deny pattern is contained
C9_AllowWins ==
    valid.called =>
        /\ AllowHit(valid.path) => valid.res
        /\ ~AllowHit(valid.path) => (valid.res <=> ~DenyHit(valid.path))

\* C9 witness: isValid returned true for a path that contains an allow
\* pattern and a deny pattern
C9_Witness ==
    /\ valid.called
    /\ AllowHit(valid.path)
    /\ DenyHit(valid.path)
    /\ valid.res

\* the sequence listing the set S of paths in ascending order of name
Ascending(S) ==
    CHOOSE s \in Perms(S) :
        \A i \in 1..(Len(s) - 1) : StrLess(name(s[i]), name(s[i + 1]))

\* the order contract: a valid directory's own entry, then its valid files
\* by ascending name, then the subtree of each valid subdirectory by
\* ascending name
RECURSIVE Contract(_, _)
Contract(path, parent) ==
    LET par == parent \o <<name(path)>>
        RECURSIVE all(_)
        all(ps) == IF ps = <<>> THEN <<>> ELSE Contract(Head(ps), par) \o all(Tail(ps))
    IN  IF ~isValid(mgr, tree, path) THEN <<>>
        ELSE IF is_file(tree, path) THEN << <<str(path), relstr(par)>> >>
        ELSE << <<str(path) \o <<"/">>, relstr(par) \o <<"/">> >> >>
               \o all(Ascending({p \in Children(tree, path) : is_file(tree, p)}))
               \o all(Ascending({p \in Children(tree, path) : is_dir(tree, p)}))

\* C10: every enumeration follows the file-before-folder alphabetical
\* contract, and two enumerations of an unchanged tree are the same sequence
C10_DeterministicOrder ==
    /\ \A i \in 1..Len(runs) : runs[i] = Contract(mgr.target, <<>>)
    /\ \A i, j \in 1..Len(runs) : runs[i] = runs[j]

\* C10 witness: two enumerations of a tree whose root holds a file and a
\* subdirectory with a smaller name that has an entry of its own
C10_Witness ==
    /\ Len(runs) >= 2
    /\ \E f, d \in Children(tree, Target) :
           /\ is_file(tree, f) /\ is_dir(tree, d)
           /\ StrLess(name(d), name(f))
           /\ Children(tree, d) # {}
           /\ str(f) \in Sources(runs[1])
           /\ \E p \in Children(tree, d) : str(p) \in Sources(runs[1])

====
